---- MODULE Spec2Model ----
(***************************************************************************)
(* Model of the RMSC-RS plugin (src/src/lib.rs): the per-frame gain stage  *)
(* of RingModSideChain::process, its decaying peak meter shared with the   *)
(* editor through an atomic cell, and the editor's meter reads.            *)
(*                                                                         *)
(* An f32 is modelled as a small binary floating-point number: an integer  *)
(* count of units of 1/Scale that has at most Precision significant bits.  *)
(* Every arithmetic operation returns the representable value nearest to   *)
(* the exact result, ties to even, as IEEE round-to-nearest does; below    *)
(* 2^Precision units the grid is the unit itself (gradual underflow).      *)
(* NaN and the infinities are outside the model.                           *)
(***************************************************************************)
EXTENDS Integers, Sequences, FiniteSets

\* ---------------------------------------------------------------- bounds
\* Fraction bits: 1.0 of linear gain is 2^UnitBits units.
UnitBits == 6
\* Significant bits of a modelled f32.
Precision == 5
\* Longest block, in sample frames, the host hands to process.
MaxFrames == 2
\* Length, in samples, of a smoothing trajectory (50 ms at the sample rate).
MaxSteps == 2

\* ------------------------------------------------------ program constants
PEAK_METER_DECAY_MS == 150
\* main_input_channels of both AUDIO_IO_LAYOUTS.
NumChannels == 2

\* Sample rates (Hz) the host may configure; each makes the decay window
\* sample_rate * PEAK_METER_DECAY_MS / 1000 a whole number of samples.
SampleRates == {20, 40}

\* Marker for a local variable that is out of scope.
NoValue == "none"

\* Entry of the per-frame history for a frame that was not metered; a
\* metered frame's entry is its amplitude, which is never negative.
Skipped == 0 - 1

\* No run of silent updates is being followed.
NoRun == [start |-> 0, n |-> 0, window |-> 0]

\* ------------------------------------------------------------ arithmetic
Abs(x) == IF x < 0 THEN 0 - x ELSE x

Max(x, y) == IF x > y THEN x ELSE y

RECURSIVE Pow(_, _)
Pow(x, n) == IF n = 0 THEN 1 ELSE x * Pow(x, n - 1)

\* Units per 1.0.
Scale == Pow(2, UnitBits)

\* nih_plug::util::MINUS_INFINITY_DB is -100.0; the meters are built from it.
MINUS_INFINITY_DB == (0 - 100) * Scale

\* Spacing of the representable values around magnitude x >= 0.
RECURSIVE Quantum(_)
Quantum(x) == IF x < Pow(2, Precision) THEN 1 ELSE 2 * Quantum(x \div 2)

\* x / d for x >= 0 rounded to the nearest integer, ties to even.
RoundDivNat(x, d) ==
    LET q == x \div d
        r == x % d
    IN  IF 2 * r < d THEN q
        ELSE IF 2 * r > d THEN q + 1
        ELSE IF q % 2 = 0 THEN q ELSE q + 1

\* The representable value nearest to n / d, for n >= 0 and d > 0.
RoundNat(n, d) ==
    LET q == Quantum(n \div d)
    IN  RoundDivNat(n, d * q) * q

\* The representable value nearest to n / d.
Round(n, d) == IF n >= 0 THEN RoundNat(n, d) ELSE 0 - RoundNat(0 - n, d)

Representable(x) == Round(x, 1) = x

\* The f32 operations of the loop body.
Add(x, y) == Round(x + y, 1)

Sub(x, y) == Round(x - y, 1)

Mul(x, y) == Round(x * y, Scale)

\* The representable values next above and next below x >= 0.
NextUp(x) == x + Quantum(x)

NextDown(x) == IF x = 0 THEN 0 - 1 ELSE x - Quantum(x - 1)

\* (x / d) ^ n <= 1/4, for d > 0, decided in integers.  For even n both
\* sides are replaced by their square roots, which keeps the powers small.
LeQuarter(x, d, n) ==
    IF n % 2 = 0
    THEN x <= 0 \/ 2 * Pow(x, n \div 2) <= Pow(d, n \div 2)
    ELSE x <= 0 \/ 4 * Pow(x, n) <= Pow(d, n)

\* ------------------------------------------------------------ initialize
\* Number of samples in the decay window at this sample rate.
DecayWindow(sample_rate) == (sample_rate * PEAK_METER_DECAY_MS) \div 1000

\* The representable value nearest to the n-th root of 1/4.
QuarterRoot(n) ==
    CHOOSE w \in 0..Scale :
        /\ Representable(w)
        /\ LeQuarter(NextDown(w) + w, 2 * Scale, n)
        /\ ~LeQuarter(w + NextUp(w), 2 * Scale, n)

\* A weight for a window of half the length: 12 dB in 75 ms.
DecayWeightHalfWindow(sample_rate) == QuarterRoot(DecayWindow(sample_rate) \div 2)

\* 0.25f64.powf((sample_rate * PEAK_METER_DECAY_MS / 1000.0).recip()) as f32:
\* the representable value nearest to the window-th root of 1/4.
DecayWeight(sample_rate) == QuarterRoot(DecayWindow(sample_rate))

\* ------------------------------------------------------------ peak meter
\* A release branch taken on every update: no instant attack.
NewPeakMeterNoAttack(amp, current, weight) ==
    Add(Mul(current, weight), Mul(amp, Sub(Scale, weight)))

\* A release that adds the whole amplitude: the (1.0 - weight) is missing.
NewPeakMeterNoComplement(amp, current, weight) ==
    IF amp > current
    THEN amp
    ELSE Add(Mul(current, weight), amp)

\* The value process stores: instant attack, exponential release.
NewPeakMeter(amp, current, weight) ==
    IF amp > current
    THEN amp
    ELSE Add(Mul(current, weight), Mul(amp, Sub(Scale, weight)))

\* let mut amplitude = 0.0; for each sample: amplitude += *sample
RECURSIVE FrameSumFrom(_, _)
FrameSumFrom(acc, samples) ==
    IF samples = <<>> THEN acc
    ELSE FrameSumFrom(Add(acc, Head(samples)), Tail(samples))

FrameSum(samples) == FrameSumFrom(0, samples)

\* The mean of the frame with its sign kept.
FrameAmplitudeSigned(sum, num_samples) == Round(sum, num_samples)

\* (amplitude / num_samples as f32).abs()
FrameAmplitude(sum, num_samples) == Abs(Round(sum, num_samples))

\* ------------------------------------------------- smoothed gain parameter
ParamIds == {"gain", "side_chain_gain"}

\* Targets a controller may set: -6 dB and 0 dB, both inside -30..30 dB.
GainTargets == {Scale \div 2, Scale}

\* The value one logarithmic step away from c toward t with k steps left:
\* the representable value nearest to c * (t / c) ^ (1 / k).
GeoStep(c, t, k) ==
    LET goal == Pow(2, k) * Pow(c, k - 1) * t
        lo == IF c < t THEN c ELSE t
        hi == IF c < t THEN t ELSE c
    IN  CHOOSE v \in lo..hi :
            /\ Representable(v)
            /\ Pow(NextDown(v) + v, k) <= goal
            /\ goal < Pow(v + NextUp(v), k)

\* Smoother::next(): one step along the trajectory; lands on the target.
SmootherNext(s) ==
    IF s.steps_left = 0 THEN s
    ELSE IF s.steps_left = 1
         THEN [current |-> s.target, target |-> s.target, steps_left |-> 0]
         ELSE [current |-> GeoStep(s.current, s.target, s.steps_left),
               target |-> s.target,
               steps_left |-> s.steps_left - 1]

\* Smoother::set_target(): a new trajectory from the current value.
SmootherSetTarget(s, value) ==
    [current |-> s.current, target |-> value, steps_left |-> MaxSteps]

\* FloatParam::new(.., util::db_to_gain(0.0), ..): at rest on 1.0.
DefaultSmoother == [current |-> Scale, target |-> Scale, steps_left |-> 0]

\* Gain stepped once per channel sample instead of once per frame.
RECURSIVE ApplyGainPerChannel(_, _)
ApplyGainPerChannel(samples, s) ==
    IF samples = <<>> THEN [out |-> <<>>, smoother |-> s]
    ELSE LET s1 == SmootherNext(s)
             rest == ApplyGainPerChannel(Tail(samples), s1)
         IN  [out |-> <<Mul(Head(samples), s1.current)>> \o rest.out,
              smoother |-> rest.smoother]

\* let gain = smoothed.next(); for sample in channel_samples { *sample *= gain }
ApplyGain(samples, s) ==
    LET s1 == SmootherNext(s)
    IN  [out |-> [ch \in 1..Len(samples) |-> Mul(samples[ch], s1.current)],
         smoother |-> s1]

\* ----------------------------------------------------------------- inputs
\* Magnitude of the input samples: the largest value below full scale.
SampleLevel == NextDown(Scale)

\* Sample frames of the main input: in phase, and negative on one channel.
Frames == {<<SampleLevel, SampleLevel>>, <<0 - SampleLevel, 0>>}

\* Frames whose channel samples sum to zero.
SilentFrames == {<<0, 0>>, <<SampleLevel, 0 - SampleLevel>>}

BlocksOver(frames) == UNION {[1..n -> frames] : n \in 0..MaxFrames}

\* Auxiliary input for a main block of n frames: none (the layout without
\* a side-chain port) or n frames of side-chain signal.
AuxBlocks(n) == {<<>>, [f \in 1..n |-> <<SampleLevel, SampleLevel>>]}

\* ------------------------------------------------------------------ state
VARIABLES
    peak_meter,               \* Arc<AtomicF32>, main meter
    side_chain_peak_meter,    \* Arc<AtomicF32>, side-chain meter
    peak_meter_decay_weight,  \* f32 field
    editor_open,              \* params.editor_state.is_open()
    smoothed,                 \* smoother of each gain parameter
    pc,                       \* position of the audio thread in process
    buffer,                   \* main block, written in place
    aux,                      \* auxiliary block
    frame,                    \* index of the frame the loop is at
    amplitude,                \* local of the loop body
    current_peak_meter,       \* local of the loop body
    ui_pc,                    \* meter the editor's draw call is showing
    ui_loaded,                \* value add_peak_meter_ui loaded
    input,                    \* history: main block as handed to process
    aux_input,                \* history: auxiliary block as handed to process
    smoothed_at_call,         \* history: smoothers when process was entered
    metered,                  \* history: amplitude stored per frame of the call
    call_flag,                \* history: editor flag over the call so far
    last_stored,              \* history: value of process's latest store
    hist                      \* history: run of silent updates since a reference

vars == <<peak_meter, side_chain_peak_meter, peak_meter_decay_weight,
          editor_open, smoothed, pc, buffer, aux, frame, amplitude,
          current_peak_meter, ui_pc, ui_loaded, input, aux_input,
          smoothed_at_call, metered, call_flag, last_stored, hist>>

meters == <<peak_meter, side_chain_peak_meter>>

audio_locals == <<pc, buffer, aux, frame, amplitude, current_peak_meter,
                  input, aux_input, smoothed_at_call, metered>>

ui_locals == <<ui_pc, ui_loaded>>

\* The audio thread is outside process.
Idle ==
    /\ pc = "idle"
    /\ buffer = <<>> /\ aux = <<>> /\ frame = 0
    /\ amplitude = NoValue /\ current_peak_meter = NoValue
    /\ input = <<>> /\ aux_input = <<>>
    /\ smoothed_at_call = NoValue /\ metered = <<>>
    /\ call_flag = NoValue

\* RingModSideChain::default()
Init ==
    /\ peak_meter = MINUS_INFINITY_DB
    /\ side_chain_peak_meter = MINUS_INFINITY_DB
    /\ peak_meter_decay_weight = Scale
    /\ editor_open = FALSE
    /\ smoothed = [p \in ParamIds |-> DefaultSmoother]
    /\ Idle
    /\ ui_pc = "idle" /\ ui_loaded = NoValue
    /\ last_stored = MINUS_INFINITY_DB
    /\ hist = NoRun

\* ------------------------------------------------- host and controller
\* Plugin::initialize: the decay weight for the configured sample rate.
Initialize(sample_rate) ==
    /\ pc = "idle"
    /\ peak_meter_decay_weight' = DecayWeight(sample_rate)
    /\ hist' = NoRun
    /\ UNCHANGED <<meters, editor_open, smoothed, audio_locals, call_flag,
                   ui_locals, last_stored>>

\* Plugin::reset: an empty body.
Reset ==
    /\ pc = "idle"
    /\ UNCHANGED vars

\* The host applies a parameter change between two blocks.
SetTarget(p, value) ==
    /\ pc = "idle"
    /\ smoothed' = [smoothed EXCEPT ![p] = SmootherSetTarget(@, value)]
    /\ UNCHANGED <<meters, peak_meter_decay_weight, editor_open, audio_locals,
                   call_flag, ui_locals, last_stored, hist>>

\* History of the editor flag over the running call, after the flag is set.
FlagAfter(flag, now) ==
    IF flag = NoValue THEN NoValue
    ELSE IF flag = (IF now THEN "open" ELSE "closed") THEN flag
    ELSE "mixed"

\* The editor window is spawned.
OpenEditor ==
    /\ ~editor_open
    /\ editor_open' = TRUE
    /\ call_flag' = FlagAfter(call_flag, TRUE)
    /\ UNCHANGED <<meters, peak_meter_decay_weight, smoothed, audio_locals,
                   ui_locals, last_stored, hist>>

\* The editor window is closed.
CloseEditor ==
    /\ editor_open
    /\ editor_open' = FALSE
    /\ call_flag' = FlagAfter(call_flag, FALSE)
    /\ UNCHANGED <<meters, peak_meter_decay_weight, smoothed, audio_locals,
                   ui_locals, last_stored, hist>>

\* ---------------------------------------------------------------- process
\* The host calls process with a main block and an auxiliary block.
ProcessBegin(block, aux_block) ==
    /\ pc = "idle"
    /\ pc' = "frame"
    /\ frame' = 1
    /\ buffer' = block
    /\ aux' = aux_block
    /\ input' = block
    /\ aux_input' = aux_block
    /\ smoothed_at_call' = smoothed
    /\ metered' = <<>>
    /\ call_flag' = IF editor_open THEN "open" ELSE "closed"
    /\ UNCHANGED <<meters, peak_meter_decay_weight, editor_open, smoothed,
                   amplitude, current_peak_meter, ui_locals, last_stored, hist>>

\* Loop body up to the editor check: one smoothed gain for the frame, every
\* channel sample scaled in place and summed.
ProcessFrame ==
    /\ pc = "frame"
    /\ frame <= Len(buffer)
    /\ LET r == ApplyGain(buffer[frame], smoothed["gain"])
       IN  /\ smoothed' = [smoothed EXCEPT !["gain"] = r.smoother]
           /\ buffer' = [buffer EXCEPT ![frame] = r.out]
           /\ amplitude' = FrameSum(r.out)
    /\ current_peak_meter' = NoValue
    /\ pc' = "meter"
    /\ UNCHANGED <<meters, peak_meter_decay_weight, editor_open, aux, frame,
                   input, aux_input, smoothed_at_call, metered, call_flag,
                   ui_locals, last_stored, hist>>

\* A gate that is always taken.
AlwaysOpen == TRUE

\* self.params.editor_state.is_open()
IsOpen == editor_open

\* Editor open: the frame's amplitude and the meter's current value.
MeterLoad ==
    /\ pc = "meter"
    /\ IsOpen
    /\ amplitude' = FrameAmplitude(amplitude, Len(buffer[frame]))
    /\ current_peak_meter' = peak_meter
    /\ pc' = "store"
    /\ UNCHANGED <<meters, peak_meter_decay_weight, editor_open, smoothed,
                   buffer, aux, frame, input, aux_input, smoothed_at_call,
                   metered, call_flag, ui_locals, last_stored, hist>>

\* Editor closed: the frame is not metered.
MeterSkip ==
    /\ pc = "meter"
    /\ ~IsOpen
    /\ amplitude' = NoValue
    /\ metered' = Append(metered, Skipped)
    /\ frame' = frame + 1
    /\ pc' = "frame"
    /\ UNCHANGED <<meters, peak_meter_decay_weight, editor_open, smoothed,
                   buffer, aux, current_peak_meter, input, aux_input,
                   smoothed_at_call, call_flag, ui_locals, last_stored, hist>>

\* The run of silent updates after one more update fed amp.
HistAfter(h, amp) ==
    IF amp = 0 /\ h.n < h.window THEN [h EXCEPT !.n = h.n + 1] ELSE NoRun

\* A store that writes the new value to both meters.
MeterStoreBoth ==
    /\ pc = "store"
    /\ LET new_peak_meter ==
               NewPeakMeter(amplitude, current_peak_meter, peak_meter_decay_weight)
       IN  /\ peak_meter' = new_peak_meter
           /\ side_chain_peak_meter' = new_peak_meter
           /\ last_stored' = new_peak_meter
    /\ metered' = Append(metered, amplitude)
    /\ hist' = HistAfter(hist, amplitude)
    /\ frame' = frame + 1
    /\ pc' = "frame"
    /\ UNCHANGED <<peak_meter_decay_weight, editor_open, smoothed, buffer, aux,
                   amplitude, current_peak_meter, input, aux_input,
                   smoothed_at_call, call_flag, ui_locals>>

\* The store of the new meter value; the loop moves to the next frame.
MeterStore ==
    /\ pc = "store"
    /\ LET new_peak_meter ==
               NewPeakMeter(amplitude, current_peak_meter, peak_meter_decay_weight)
       IN  /\ peak_meter' = new_peak_meter
           /\ last_stored' = new_peak_meter
    /\ metered' = Append(metered, amplitude)
    /\ hist' = HistAfter(hist, amplitude)
    /\ frame' = frame + 1
    /\ pc' = "frame"
    /\ UNCHANGED <<side_chain_peak_meter, peak_meter_decay_weight, editor_open,
                   smoothed, buffer, aux, amplitude, current_peak_meter, input,
                   aux_input, smoothed_at_call, call_flag, ui_locals>>

\* Every frame of the block has been through the loop body.
Done == pc = "frame" /\ frame > Len(buffer)

\* ProcessStatus::Normal; the host takes its buffers back.
ProcessReturn ==
    /\ Done
    /\ pc' = "idle"
    /\ buffer' = <<>> /\ aux' = <<>> /\ frame' = 0
    /\ amplitude' = NoValue /\ current_peak_meter' = NoValue
    /\ input' = <<>> /\ aux_input' = <<>>
    /\ smoothed_at_call' = NoValue /\ metered' = <<>>
    /\ call_flag' = NoValue
    /\ UNCHANGED <<meters, peak_meter_decay_weight, editor_open, smoothed,
                   ui_locals, last_stored, hist>>

\* ----------------------------------------------------------------- editor
MeterOf(m) == IF m = "main" THEN peak_meter ELSE side_chain_peak_meter

\* add_peak_meter_ui: meter.load(Relaxed)
UiLoad(m) ==
    /\ editor_open
    /\ ui_pc = "idle"
    /\ ui_pc' = m
    /\ ui_loaded' = MeterOf(m)
    /\ UNCHANGED <<meters, peak_meter_decay_weight, editor_open, smoothed,
                   audio_locals, call_flag, last_stored, hist>>

\* A draw call that clears the meter it has shown.
UiShowClearing ==
    /\ ui_pc # "idle"
    /\ ui_pc' = "idle"
    /\ ui_loaded' = NoValue
    /\ peak_meter' = IF ui_pc = "main" THEN MINUS_INFINITY_DB ELSE peak_meter
    /\ side_chain_peak_meter' = side_chain_peak_meter
    /\ UNCHANGED <<peak_meter_decay_weight, editor_open, smoothed,
                   audio_locals, call_flag, last_stored, hist>>

\* add_peak_meter_ui: the progress bar is drawn and the call returns.
UiShow ==
    /\ ui_pc # "idle"
    /\ ui_pc' = "idle"
    /\ ui_loaded' = NoValue
    /\ UNCHANGED <<meters, peak_meter_decay_weight, editor_open, smoothed,
                   audio_locals, call_flag, last_stored, hist>>

\* --------------------------------------------------------- specifications
\* The audio thread, the host and the controller of the main gain, with the
\* editor opening and closing at any moment.  The controller moves the gain
\* once the previous trajectory has landed.
Next ==
    \/ \E sample_rate \in SampleRates : Initialize(sample_rate)
    \/ Reset
    \/ \E value \in GainTargets :
           smoothed["gain"].steps_left = 0 /\ SetTarget("gain", value)
    \/ OpenEditor
    \/ CloseEditor
    \/ \E block \in BlocksOver(Frames) : ProcessBegin(block, <<>>)
    \/ ProcessFrame
    \/ MeterLoad
    \/ MeterSkip
    \/ MeterStore
    \/ ProcessReturn

Spec == Init /\ [][Next]_vars

\* The editor's draw calls interleaved with the steps of process, with and
\* without a side-chain signal on the auxiliary port.
NextUi ==
    \/ \E sample_rate \in SampleRates : Initialize(sample_rate)
    \/ Reset
    \/ OpenEditor
    \/ CloseEditor
    \/ \E block \in BlocksOver(Frames) :
           \E aux_block \in AuxBlocks(Len(block)) : ProcessBegin(block, aux_block)
    \/ ProcessFrame
    \/ MeterLoad
    \/ MeterSkip
    \/ MeterStore
    \/ ProcessReturn
    \/ \E m \in {"main", "side"} : UiLoad(m)
    \/ UiShow

SpecUi == Init /\ [][NextUi]_vars

\* Both gain parameters under control, a new target at any moment between
\* two blocks, and a side-chain signal on the auxiliary port; the editor
\* stays closed.
NextGain ==
    \/ \E p \in ParamIds, value \in GainTargets : SetTarget(p, value)
    \/ \E block \in BlocksOver(Frames) :
           \E aux_block \in AuxBlocks(Len(block)) : ProcessBegin(block, aux_block)
    \/ ProcessFrame
    \/ MeterSkip
    \/ ProcessReturn

SpecGain == Init /\ [][NextGain]_vars

\* After initialize, with the editor open and the meter at a level c > 0:
\* silence from then on.
InitDecay ==
    /\ \E c \in 1..(4 * Scale) :
           /\ Representable(c)
           /\ peak_meter = c
           /\ last_stored = c
           /\ \E sample_rate \in SampleRates :
                  /\ peak_meter_decay_weight = DecayWeight(sample_rate)
                  /\ hist = [start |-> c, n |-> 0,
                             window |-> DecayWindow(sample_rate)]
    /\ side_chain_peak_meter = MINUS_INFINITY_DB
    /\ editor_open = TRUE
    /\ smoothed = [p \in ParamIds |-> DefaultSmoother]
    /\ Idle
    /\ ui_pc = "idle" /\ ui_loaded = NoValue

NextDecay ==
    \/ \E block \in BlocksOver(SilentFrames) : ProcessBegin(block, <<>>)
    \/ ProcessFrame
    \/ MeterLoad
    \/ MeterStore
    \/ ProcessReturn

SpecDecay == InitDecay /\ [][NextDecay]_vars

\* ----------------------------------------------------------------- claims
\* The loop body has just stored a meter value: amplitude is the amplitude
\* it was fed, current_peak_meter the value it loaded, peak_meter the result.
JustStored ==
    /\ pc = "frame"
    /\ metered # <<>>
    /\ metered[Len(metered)] # Skipped

\* Number of frames of the running call that were metered.
Updates == Cardinality({f \in 1..Len(metered) : metered[f] # Skipped})

\* C1: whenever a meter update is fed an amplitude strictly greater than
\* the value the meter holds, the meter then holds exactly that amplitude.
C1_InstantAttack ==
    (JustStored /\ amplitude > current_peak_meter) => peak_meter = amplitude

C1_Witness ==
    /\ JustStored
    /\ current_peak_meter >= 0
    /\ amplitude > current_peak_meter
    /\ peak_meter_decay_weight < Scale
    /\ peak_meter = amplitude

\* A run of silent updates as long as the decay window has just ended.
WindowElapsed == hist.window > 0 /\ hist.n = hist.window

\* C2: from a meter value c > 0, after as many updates fed amplitude 0 as
\* the 150 ms window has samples, the meter holds c / 4 within tolerance:
\* one eighth of c / 4, plus half a unit of underflow per update.
C2_DecayLaw ==
    WindowElapsed =>
        32 * Abs(4 * peak_meter - hist.start) <= 4 * hist.start + 64 * hist.window

C2_Witness ==
    /\ WindowElapsed
    /\ hist.window = 6
    /\ hist.start = Scale
    /\ peak_meter < hist.start

\* C3: during a process call in which the editor flag has been false all
\* along, no step changes the main peak meter.
C3_MeteringGate == [][call_flag = "closed" => peak_meter' = peak_meter]_vars

\* A call is over in which the flag was false throughout, the meter held a
\* level from an earlier call and the block was louder than that level.
C3_Witness ==
    /\ Done
    /\ call_flag = "closed"
    /\ Len(buffer) = MaxFrames
    /\ Updates = 0
    /\ peak_meter >= 0
    /\ \E f \in 1..Len(buffer) :
           Abs(Round(FrameSum(buffer[f]), Len(buffer[f]))) > peak_meter

\* C4: every load of a peak meter by the editor returns a value >= 0.
C4_LoadNonNegative == ui_pc # "idle" => ui_loaded >= 0

\* Sum of the samples of all frames of a block.
RECURSIVE BlockSum(_)
BlockSum(block) ==
    IF block = <<>> THEN 0
    ELSE Add(FrameSum(Head(block)), BlockSum(Tail(block)))

\* C5 as stated: with metering active, a call on a block of F frames makes
\* exactly one update, fed |sum of all post-gain samples / F|.
C5_OneUpdatePerBlock ==
    (Done /\ call_flag = "open" /\ buffer # <<>>) =>
        /\ Updates = 1
        /\ metered[Len(metered)] = Abs(Round(BlockSum(buffer), Len(buffer)))

\* C5 as amended: with metering active, a call on a block of F frames makes
\* exactly F updates, one per frame, each fed |sum of that frame's post-gain
\* channel samples / number of channels|.
C5_OneUpdatePerFrame ==
    (Done /\ call_flag = "open") =>
        /\ Len(metered) = Len(buffer)
        /\ Updates = Len(buffer)
        /\ \A f \in 1..Len(buffer) :
               metered[f] = Abs(Round(Add(buffer[f][1], buffer[f][2]), NumChannels))

C5_Witness ==
    /\ Done
    /\ call_flag = "open"
    /\ Len(buffer) = MaxFrames
    /\ Updates = MaxFrames
    /\ metered[1] # metered[2]

\* C6: the loop body advances the gain smoother once per frame and scales
\* every channel sample of the frame by that one value; at rest on 1.0 the
\* block is left as it was.
C6_GainPerFrame ==
    /\ pc = "meter" =>
           /\ \A ch \in 1..Len(buffer[frame]) :
                  buffer[frame][ch] =
                      Mul(input[frame][ch], smoothed["gain"].current)
           /\ smoothed["gain"].steps_left =
                  Max(0, smoothed_at_call["gain"].steps_left - frame)
    /\ (Done /\ smoothed_at_call["gain"] = DefaultSmoother) => buffer = input

\* A frame scaled by a gain that is on its way to the target.
C6_Witness ==
    /\ pc = "meter"
    /\ smoothed["gain"].steps_left > 0
    /\ smoothed["gain"].current # smoothed["gain"].target
    /\ buffer[frame] # input[frame]

\* C7: with an auxiliary block supplied, process advances the side-chain
\* gain smoother once per frame of it and scales every auxiliary sample.
C7_SideChainGainApplied ==
    (Done /\ aux_input # <<>>) =>
        /\ smoothed["side_chain_gain"].steps_left =
               Max(0, smoothed_at_call["side_chain_gain"].steps_left - Len(aux_input))
        /\ smoothed_at_call["side_chain_gain"].steps_left = 0 =>
               \A f \in 1..Len(aux_input) : \A ch \in 1..Len(aux_input[f]) :
                   aux[f][ch] =
                       Mul(aux_input[f][ch], smoothed["side_chain_gain"].current)

\* C8: a step of the editor's draw call changes neither meter; the value
\* process loaded is still the meter's value when it stores; and a load by
\* the editor returns the value the meter was built with or the value of
\* process's latest store.
C8_SingleWriter ==
    [][/\ ui_pc' # ui_pc => UNCHANGED meters
       /\ (pc = "store" /\ pc' # "store") => current_peak_meter = peak_meter
       /\ (ui_pc = "idle" /\ ui_pc' # "idle") =>
              ui_loaded' \in {MINUS_INFINITY_DB, last_stored}]_vars

\* The editor has loaded a value process stored, while process is between
\* its own load and store of the meter.
C8_Witness ==
    /\ ui_pc = "main"
    /\ ui_loaded >= 0
    /\ pc = "store"
    /\ current_peak_meter = ui_loaded

\* C9 as stated: an update fed a while the meter holds c leaves the meter
\* at m with a <= m <= max(a, c).
C9_ExactBounds ==
    JustStored =>
        /\ amplitude <= peak_meter
        /\ peak_meter <= Max(amplitude, current_peak_meter)

\* C9 as amended: m lies within one representable step of [a, max(a, c)];
\* when a <= c it is the rounded c * w + a * (1 - w); with w = 1.0 the
\* meter never decreases.
C9_BoundsWithinRounding ==
    JustStored =>
        /\ NextDown(amplitude) <= peak_meter
        /\ peak_meter <= NextUp(Max(amplitude, current_peak_meter))
        /\ amplitude <= current_peak_meter =>
               peak_meter =
                   Round(Round(current_peak_meter * peak_meter_decay_weight, Scale)
                         + Round(amplitude * (Scale - peak_meter_decay_weight), Scale),
                         1)
        /\ peak_meter_decay_weight = Scale => peak_meter >= current_peak_meter

\* A release toward a quieter frame.
C9_Witness ==
    /\ JustStored
    /\ peak_meter_decay_weight < Scale
    /\ amplitude < peak_meter
    /\ peak_meter < current_peak_meter

\* C10: the side-chain peak meter always holds the value it was built with.
C10_SideChainMeterConstant == side_chain_peak_meter = MINUS_INFINITY_DB

\* The main meter has been stored for a block that came with a side-chain
\* signal, and the editor has loaded the side-chain meter.
C10_Witness ==
    /\ JustStored
    /\ aux_input # <<>>
    /\ peak_meter >= 0
    /\ ui_pc = "side"
    /\ ui_loaded = MINUS_INFINITY_DB

====
